---- MODULE Spec2Model ----
(***************************************************************************)
(* Model of json_converter.py: the flattener (json_to_dataframe) and the   *)
(* schema inferencer (detect_field_pattern, analyze_field_statistics,      *)
(* generate_schema).                                                       *)
(*                                                                         *)
(* Representation of Python values                                         *)
(*   None            [t |-> "null"]                                        *)
(*   bool            [t |-> "bool",  b |-> TRUE]                           *)
(*   int             [t |-> "int",   i |-> 3]                              *)
(*   float           [t |-> "float", f |-> 15]      (tenths: 15 is 1.5)    *)
(*   float('nan')    [t |-> "nan"]                  (pandas' missing cell) *)
(*   str             [t |-> "str",   s |-> <<"A", "1">>]  (characters)     *)
(*   list            [t |-> "list",  items |-> <<v1, v2>>]                 *)
(*   dict            [t |-> "dict",  fields |-> << <<"k", v>>, ... >>]     *)
(* A Python dict is a sequence of <<key, value>> pairs with distinct keys, *)
(* in insertion order.  Dict keys and column names are TLA+ strings.       *)
(* The dicts the program builds (patterns, statistics, schemas, rows) are  *)
(* such sequences of pairs as well.                                        *)
(***************************************************************************)
EXTENDS Integers, Sequences, FiniteSets, TLC

VARIABLES inData, inDetailed, hashOrder, pc, result

vars == <<inData, inDetailed, hashOrder, pc, result>>

---------------------------------------------------------------------------
(* Python values *)

None == [t |-> "null"]
NaN == [t |-> "nan"]
PyBool(x) == [t |-> "bool", b |-> x]
PyInt(n) == [t |-> "int", i |-> n]
PyFloat(tenths) == [t |-> "float", f |-> tenths]
PyString(chars) == [t |-> "str", s |-> chars]
PyList(seq) == [t |-> "list", items |-> seq]
PyDict(pairs) == [t |-> "dict", fields |-> pairs]

\* isinstance(v, str), isinstance(v, dict), isinstance(v, list)
IsStr(v) == v.t = "str"
IsDict(v) == v.t = "dict"
IsList(v) == v.t = "list"
\* isinstance(v, bool)
IsBool(v) == v.t = "bool"
\* isinstance(v, int): bool is a subclass of int in Python
IsInt(v) == v.t \in {"int", "bool"}
\* isinstance(v, (int, float))
IsIntOrFloat(v) == v.t \in {"int", "bool", "float", "nan"}
\* type(v).__name__
TypeName(v) ==
    CASE v.t = "null" -> "NoneType"
      [] v.t = "nan" -> "float"
      [] OTHER -> v.t

\* str(v) of a value that is not a str: kept as the application of str to v
PyStr(v) == IF IsStr(v) THEN v ELSE [t |-> "str", str_of |-> v]

---------------------------------------------------------------------------
(* dict operations on sequences of <<key, value>> pairs *)

\* d.keys(), in insertion order
Keys(d) == [n \in 1..Len(d) |-> d[n][1]]
\* set(d.keys())
KeySet(d) == {d[n][1] : n \in 1..Len(d)}
\* key in d
Has(d, k) == k \in KeySet(d)
\* d[k]
Get(d, k) == d[CHOOSE n \in 1..Len(d) : d[n][1] = k][2]
\* d.get(k): None when the key is missing
GetOrNone(d, k) == IF Has(d, k) THEN Get(d, k) ELSE None
\* d[k] = v: an existing key keeps its position
Put(d, k, v) ==
    IF Has(d, k)
    THEN [n \in 1..Len(d) |-> IF d[n][1] = k THEN <<k, v>> ELSE d[n]]
    ELSE Append(d, <<k, v>>)

\* the elements of a sequence
Range(seq) == {seq[n] : n \in 1..Len(seq)}

\* a slip of the filter: the None values are kept
SelectAll(seq) == seq
\* [v for v in seq if v is not None]
RECURSIVE SelectNonNull(_)
SelectNonNull(seq) ==
    IF seq = <<>> THEN <<>>
    ELSE IF Head(seq).t = "null" THEN SelectNonNull(Tail(seq))
    ELSE <<Head(seq)>> \o SelectNonNull(Tail(seq))

---------------------------------------------------------------------------
(* re.match(r'^...$', s) for the patterns detect_field_pattern uses.  A     *)
(* pattern is a sequence of items, each a character class with a repeat    *)
(* count; a string is a sequence of characters.                            *)

AsciiDigit == {"0", "1", "2", "3", "4", "5", "6", "7", "8", "9"}
\* a decimal digit outside ASCII (ARABIC-INDIC DIGIT THREE), as one character
ArabicIndicThree == "U+0663"
\* \d of a str pattern matches every Unicode decimal digit
UnicodeDigit == AsciiDigit \cup {ArabicIndicThree}
AsciiUpper == {"A", "B", "C", "D", "E", "F", "G", "H", "I", "J", "K", "L", "M",
               "N", "O", "P", "Q", "R", "S", "T", "U", "V", "W", "X", "Y", "Z"}
AsciiLower == {"a", "b", "c", "d", "e", "f", "g", "h", "i", "j", "k", "l", "m",
               "n", "o", "p", "q", "r", "s", "t", "u", "v", "w", "x", "y", "z"}
AsciiLetter == AsciiUpper \cup AsciiLower

\* cls{lo,hi}
Rep(cls, lo, hi) == [cls |-> cls, lo |-> lo, hi |-> hi]
\* cls{lo,}
AtLeast(cls, lo) == [cls |-> cls, lo |-> lo]
\* one literal character
Lit(c) == Rep({c}, 1, 1)

\* ^\d{1,2}/\d{1,2}/\d{4}$
DatePattern ==
    <<Rep(UnicodeDigit, 1, 2), Lit("/"), Rep(UnicodeDigit, 1, 2), Lit("/"),
      Rep(UnicodeDigit, 4, 4)>>
\* ^\d{1,2}/\d{1,2}/\d{4} \d{1,2}:\d{2}:\d{2}$
DateTimePattern ==
    DatePattern \o
    <<Lit(" "), Rep(UnicodeDigit, 1, 2), Lit(":"), Rep(UnicodeDigit, 2, 2),
      Lit(":"), Rep(UnicodeDigit, 2, 2)>>
\* ^[a-zA-Z0-9._%+-]+@[a-zA-Z0-9.-]+\.[a-zA-Z]{2,}$
EmailPattern ==
    <<AtLeast(AsciiLetter \cup AsciiDigit \cup {".", "_", "%", "+", "-"}, 1),
      Lit("@"),
      AtLeast(AsciiLetter \cup AsciiDigit \cup {".", "-"}, 1),
      Lit("."),
      AtLeast(AsciiLetter, 2)>>
\* ^[A-Z0-9_-]+$
IdentifierPattern == <<AtLeast(AsciiUpper \cup AsciiDigit \cup {"_", "-"}, 1)>>
\* ^[0-9]+$
NumericPattern == <<AtLeast(AsciiDigit, 1)>>

\* items p.. of the pattern match s from position i up to the $
RECURSIVE MatchFrom(_, _, _, _)
MatchFrom(pat, p, s, i) ==
    IF p > Len(pat)
    THEN \* $ matches at the end, and just before a newline that ends the string
         \/ i = Len(s) + 1
         \/ i = Len(s) /\ s[i] = "\n"
    ELSE LET item == pat[p]
             left == Len(s) - i + 1
             most == IF "hi" \in DOMAIN item /\ item.hi < left THEN item.hi ELSE left
         IN  \E n \in item.lo..most :
                /\ \A j \in i..(i + n - 1) : s[j] \in item.cls
                /\ MatchFrom(pat, p + 1, s, i + n)

ReMatch(pat, s) == MatchFrom(pat, 1, s, 1)

---------------------------------------------------------------------------
(* detect_field_pattern *)

\* value_str[:50] + "..." if len(value_str) > 50 else value_str
ExampleMaxLen == 50
TruncatedExample(s) ==
    IF Len(s) > ExampleMaxLen
    THEN SubSeq(s, 1, ExampleMaxLen) \o <<".", ".", ".">>
    ELSE s

\* a slip of the order: the numeric-string rule is tried before the identifier
\* rule
detect_field_pattern_NumericFirst(value) ==
    IF value = None
    THEN << <<"type", "null">>, <<"description", "Null value">> >>
    ELSE IF IsStr(value) THEN
        IF ReMatch(DateTimePattern, value.s) THEN
            << <<"type", "string">>, <<"format", "datetime">>,
               <<"pattern", "^\\d{1,2}/\\d{1,2}/\\d{4} \\d{1,2}:\\d{2}:\\d{2}$">>,
               <<"description", "Date and time in MM/DD/YYYY HH:MM:SS format">>,
               <<"example", value>> >>
        ELSE IF ReMatch(DatePattern, value.s) THEN
            << <<"type", "string">>, <<"format", "date">>,
               <<"pattern", "^\\d{1,2}/\\d{1,2}/\\d{4}$">>,
               <<"description", "Date in MM/DD/YYYY format">>,
               <<"example", value>> >>
        ELSE IF ReMatch(EmailPattern, value.s) THEN
            << <<"type", "string">>, <<"format", "email">>,
               <<"pattern", "^[a-zA-Z0-9._%+-]+@[a-zA-Z0-9.-]+\\.[a-zA-Z]{2,}$">>,
               <<"description", "Email address">>,
               <<"example", value>> >>
        ELSE IF ReMatch(NumericPattern, value.s) THEN
            << <<"type", "string">>, <<"pattern", "^[0-9]+$">>,
               <<"description", "Numeric string">>,
               <<"example", value>> >>
        ELSE IF ReMatch(IdentifierPattern, value.s) THEN
            << <<"type", "string">>, <<"pattern", "^[A-Z0-9_-]+$">>,
               <<"description", "Identifier or key">>,
               <<"example", value>> >>
        ELSE IF value.s = <<>> THEN
            << <<"type", "string">>, <<"description", "Empty string">>,
               <<"example", PyString(<<>>)>> >>
        ELSE
            << <<"type", "string">>, <<"description", "Text string">>,
               <<"example", PyString(TruncatedExample(value.s))>> >>
    ELSE IF IsIntOrFloat(value) THEN
        IF IsInt(value)
        THEN << <<"type", "integer">>, <<"description", "Integer number">>,
                <<"example", value>> >>
        ELSE << <<"type", "number">>, <<"description", "Decimal number">>,
                <<"example", value>> >>
    ELSE IF IsBool(value) THEN
        << <<"type", "boolean">>, <<"description", "Boolean value">>,
           <<"example", value>> >>
    ELSE
        << <<"type", TypeName(value)>>,
           <<"description", TypeName(value) \o " value">>,
           <<"example", PyStr(value)>> >>

detect_field_pattern(value) ==
    IF value = None
    THEN << <<"type", "null">>, <<"description", "Null value">> >>
    ELSE IF IsStr(value) THEN
        IF ReMatch(DateTimePattern, value.s) THEN
            << <<"type", "string">>, <<"format", "datetime">>,
               <<"pattern", "^\\d{1,2}/\\d{1,2}/\\d{4} \\d{1,2}:\\d{2}:\\d{2}$">>,
               <<"description", "Date and time in MM/DD/YYYY HH:MM:SS format">>,
               <<"example", value>> >>
        ELSE IF ReMatch(DatePattern, value.s) THEN
            << <<"type", "string">>, <<"format", "date">>,
               <<"pattern", "^\\d{1,2}/\\d{1,2}/\\d{4}$">>,
               <<"description", "Date in MM/DD/YYYY format">>,
               <<"example", value>> >>
        ELSE IF ReMatch(EmailPattern, value.s) THEN
            << <<"type", "string">>, <<"format", "email">>,
               <<"pattern", "^[a-zA-Z0-9._%+-]+@[a-zA-Z0-9.-]+\\.[a-zA-Z]{2,}$">>,
               <<"description", "Email address">>,
               <<"example", value>> >>
        ELSE IF ReMatch(IdentifierPattern, value.s) THEN
            << <<"type", "string">>, <<"pattern", "^[A-Z0-9_-]+$">>,
               <<"description", "Identifier or key">>,
               <<"example", value>> >>
        ELSE IF ReMatch(NumericPattern, value.s) THEN
            << <<"type", "string">>, <<"pattern", "^[0-9]+$">>,
               <<"description", "Numeric string">>,
               <<"example", value>> >>
        ELSE IF value.s = <<>> THEN
            << <<"type", "string">>, <<"description", "Empty string">>,
               <<"example", PyString(<<>>)>> >>
        ELSE
            << <<"type", "string">>, <<"description", "Text string">>,
               <<"example", PyString(TruncatedExample(value.s))>> >>
    ELSE IF IsIntOrFloat(value) THEN
        IF IsInt(value)
        THEN << <<"type", "integer">>, <<"description", "Integer number">>,
                <<"example", value>> >>
        ELSE << <<"type", "number">>, <<"description", "Decimal number">>,
                <<"example", value>> >>
    ELSE IF IsBool(value) THEN
        << <<"type", "boolean">>, <<"description", "Boolean value">>,
           <<"example", value>> >>
    ELSE
        << <<"type", TypeName(value)>>,
           <<"description", TypeName(value) \o " value">>,
           <<"example", PyStr(value)>> >>

---------------------------------------------------------------------------
(* analyze_field_statistics *)

RECURSIVE GCD(_, _)
GCD(a, b) == IF b = 0 THEN a ELSE GCD(b, a % b)
\* the float num / den, kept exact as a reduced fraction <<num, den>>
Ratio(num, den) ==
    LET g == GCD(num, den)
    IN  IF num = 0 THEN <<0, 1>> ELSE <<num \div g, den \div g>>
\* a slip of the comparison: r <= 0.5
AtMostHalf(r) == 2 * r[1] <= r[2]
\* r < 0.5
LessThanHalf(r) == 2 * r[1] < r[2]

\* the number a bool, int or float stands for, in tenths
Tenths(v) ==
    CASE v.t = "bool" -> IF v.b THEN 10 ELSE 0
      [] v.t = "int" -> 10 * v.i
      [] v.t = "float" -> v.f

\* min(seq, key=...) and max(seq, key=...) over the elements' keys: Python
\* returns the first of the smallest (largest) elements
MinBy(seq, keys) ==
    seq[CHOOSE n \in 1..Len(seq) :
            /\ \A m \in 1..Len(seq) : keys[n] <= keys[m]
            /\ \A m \in 1..(n - 1) : keys[m] > keys[n]]
MaxBy(seq, keys) ==
    seq[CHOOSE n \in 1..Len(seq) :
            /\ \A m \in 1..Len(seq) : keys[n] >= keys[m]
            /\ \A m \in 1..(n - 1) : keys[m] < keys[n]]
\* sum(seq)
RECURSIVE Sum(_)
Sum(seq) == IF seq = <<>> THEN 0 ELSE Head(seq) + Sum(Tail(seq))

StrLen(v) == Len(v.s)

\* Counter(seq): <<value, count>> pairs in the order the values are first met
RECURSIVE Counter(_)
Counter(seq) ==
    IF seq = <<>> THEN <<>>
    ELSE LET before == Counter(SubSeq(seq, 1, Len(seq) - 1))
             v == seq[Len(seq)]
         IN  IF Has(before, v) THEN Put(before, v, Get(before, v) + 1)
             ELSE Append(before, <<v, 1>>)

\* a slip of the tie-break: of the pairs of equal count the last met comes first
RECURSIVE SortedByCountLastFirst(_)
SortedByCountLastFirst(pairs) ==
    IF pairs = <<>> THEN <<>>
    ELSE LET top == CHOOSE n \in 1..Len(pairs) :
                        /\ \A m \in 1..Len(pairs) : pairs[m][2] <= pairs[n][2]
                        /\ \A m \in (n + 1)..Len(pairs) : pairs[m][2] < pairs[n][2]
         IN  <<pairs[top]>> \o
             SortedByCountLastFirst([m \in 1..(Len(pairs) - 1) |->
                                        IF m < top THEN pairs[m] ELSE pairs[m + 1]])
\* sorted(pairs, key=count, reverse=True): stable, so pairs of equal count keep
\* their order
RECURSIVE SortedByCount(_)
SortedByCount(pairs) ==
    IF pairs = <<>> THEN <<>>
    ELSE LET top == CHOOSE n \in 1..Len(pairs) :
                        /\ \A m \in 1..Len(pairs) : pairs[m][2] <= pairs[n][2]
                        /\ \A m \in 1..(n - 1) : pairs[m][2] < pairs[n][2]
         IN  <<pairs[top]>> \o
             SortedByCount([m \in 1..(Len(pairs) - 1) |->
                               IF m < top THEN pairs[m] ELSE pairs[m + 1]])

\* value_counts.most_common(3)
MostCommonN == 3
most_common(pairs, n) ==
    LET sorted == SortedByCount(pairs)
    IN  SubSeq(sorted, 1, IF Len(sorted) < n THEN Len(sorted) ELSE n)

analyze_field_statistics(values) ==
    IF values = <<>> THEN <<>>
    ELSE
    LET non_null_values == SelectNonNull(values)
        total == Len(values)
        nulls == Len(values) - Len(non_null_values)
        nn == Len(non_null_values)
        stats == << <<"total_count", total>>,
                    <<"null_count", nulls>>,
                    <<"null_rate", Ratio(nulls, total)>> >>
        \* list(set(...)): a list in no defined order, kept as the set
        types == << <<"types", {TypeName(v) : v \in Range(non_null_values)}>> >>
        tenths == [n \in 1..nn |-> Tenths(non_null_values[n])]
        lengths == [n \in 1..nn |-> StrLen(non_null_values[n])]
        numeric ==
            IF \A v \in Range(non_null_values) : IsIntOrFloat(v)
            THEN << <<"min", MinBy(non_null_values, tenths)>>,
                    <<"max", MaxBy(non_null_values, tenths)>>,
                    <<"avg", Ratio(Sum(tenths), 10 * nn)>> >>
            ELSE <<>>
        strings ==
            IF \A v \in Range(non_null_values) : IsStr(v)
            THEN << <<"min_length", MinBy(lengths, lengths)>>,
                    <<"max_length", MaxBy(lengths, lengths)>>,
                    <<"avg_length", Ratio(Sum(lengths), nn)>>,
                    <<"unique_count", Cardinality(Range(non_null_values))>>,
                    <<"uniqueness_rate",
                      Ratio(Cardinality(Range(non_null_values)), nn)>>,
                    <<"most_common",
                      most_common(Counter(non_null_values), MostCommonN)>> >>
            ELSE <<>>
    IN  IF non_null_values # <<>>
        THEN stats \o types \o numeric \o strings
        ELSE stats

---------------------------------------------------------------------------
(* generate_schema *)

\* for key in all_keys: a set has no defined iteration order; the order of
\* this run is the order in which hashOrder lists the keys
RECURSIVE SetIterationOrder(_, _)
SetIterationOrder(S, order) ==
    IF order = <<>> THEN <<>>
    ELSE IF Head(order) \in S
         THEN <<Head(order)>> \o SetIterationOrder(S, Tail(order))
         ELSE SetIterationOrder(S, Tail(order))

\* a slip of the sample: the last non-null value instead of the first
LastNonNull(field_values) ==
    LET non_null == SelectNonNull(field_values)
    IN  IF non_null = <<>> THEN None ELSE non_null[Len(non_null)]
\* next((v for v in field_values if v is not None), None)
FirstNonNull(field_values) ==
    LET non_null == SelectNonNull(field_values)
    IN  IF non_null = <<>> THEN None ELSE non_null[1]

\* [item.get(key) for item in data]
FieldValues(data, key) ==
    [n \in 1..Len(data) |-> GetOrNone(data[n].fields, key)]

\* field_stats.get("null_rate", 0) < 0.5
NullRateBelowHalf(field_stats) ==
    IF Has(field_stats, "null_rate")
    THEN LessThanHalf(Get(field_stats, "null_rate"))
    ELSE TRUE

\* the loop over all_keys: merged_schema["properties"]
RECURSIVE MergedProperties(_, _, _)
MergedProperties(data, keys, detailed) ==
    IF keys = <<>> THEN <<>>
    ELSE LET key == Head(keys)
             field_values == FieldValues(data, key)
             field_stats == analyze_field_statistics(field_values)
             sample_value == FirstNonNull(field_values)
             pattern_info == detect_field_pattern(sample_value)
             rest == MergedProperties(data, Tail(keys), detailed)
         IN  IF sample_value # None
             THEN << <<key, IF detailed
                            THEN Put(pattern_info, "statistics", field_stats)
                            ELSE pattern_info>> >> \o rest
             ELSE rest

\* the loop over all_keys: merged_schema["required"]
RECURSIVE MergedRequired(_, _)
MergedRequired(data, keys) ==
    IF keys = <<>> THEN <<>>
    ELSE LET key == Head(keys)
             field_values == FieldValues(data, key)
             field_stats == analyze_field_statistics(field_values)
             sample_value == FirstNonNull(field_values)
             rest == MergedRequired(data, Tail(keys))
         IN  IF sample_value # None /\ NullRateBelowHalf(field_stats)
             THEN <<key>> \o rest
             ELSE rest

\* all_keys: the union of the items' keys
AllKeys(data) == UNION {KeySet(data[n].fields) : n \in 1..Len(data)}

\* a slip of the loop: every key is required, null-valued or not
ObjectRequiredAll(fields) == Keys(fields)
\* the loop over data.items(): schema["required"]
RECURSIVE ObjectRequired(_)
ObjectRequired(fields) ==
    IF fields = <<>> THEN <<>>
    ELSE IF Head(fields)[2] # None
         THEN <<Head(fields)[1]>> \o ObjectRequired(Tail(fields))
         ELSE ObjectRequired(Tail(fields))

RECURSIVE generate_schema(_, _, _)
\* the loop over data.items(): schema["properties"]
RECURSIVE ObjectProperties(_, _)
ObjectProperties(fields, detailed) ==
    IF fields = <<>> THEN <<>>
    ELSE LET key == Head(fields)[1]
             value == Head(fields)[2]
             rest == ObjectProperties(Tail(fields), detailed)
         IN  IF value # None
             THEN << <<key, generate_schema(value, key, detailed)>> >> \o rest
             ELSE rest

\* a slip of the dispatch: the empty array is not told apart, and all() holds
\* of it
generate_schema_NoEmptyCheck(data, field_name, detailed) ==
    IF IsDict(data) THEN
        << <<"type", "object">>,
           <<"properties", ObjectProperties(data.fields, detailed)>>,
           <<"required", ObjectRequired(data.fields)>> >>
    ELSE IF IsList(data) THEN
        IF \A item \in Range(data.items) : IsDict(item) THEN
            LET keys == SetIterationOrder(AllKeys(data.items), hashOrder)
                merged_schema ==
                    << <<"type", "object">>,
                       <<"properties", MergedProperties(data.items, keys, detailed)>>,
                       <<"required", MergedRequired(data.items, keys)>> >>
            IN  << <<"type", "array">>,
                   <<"description",
                     "Array of " \o ToString(Len(data.items)) \o " objects">>,
                   <<"items", merged_schema>> >>
        ELSE
            LET sample_value == data.items[1]
            IN  IF sample_value # None
                THEN << <<"type", "array">>,
                        <<"description",
                          "Array of " \o ToString(Len(data.items)) \o " items">>,
                        <<"items", detect_field_pattern(sample_value)>> >>
                ELSE << <<"type", "array">>,
                        <<"description", "Array of items">>,
                        <<"items", << <<"type", "string">> >> >> >>
    ELSE detect_field_pattern(data)

generate_schema(data, field_name, detailed) ==
    IF IsDict(data) THEN
        << <<"type", "object">>,
           <<"properties", ObjectProperties(data.fields, detailed)>>,
           <<"required", ObjectRequired(data.fields)>> >>
    ELSE IF IsList(data) THEN
        IF data.items = <<>> THEN
            << <<"type", "array">>, <<"description", "Empty array">>,
               <<"items", <<>> >> >>
        ELSE IF \A item \in Range(data.items) : IsDict(item) THEN
            LET keys == SetIterationOrder(AllKeys(data.items), hashOrder)
                merged_schema ==
                    << <<"type", "object">>,
                       <<"properties", MergedProperties(data.items, keys, detailed)>>,
                       <<"required", MergedRequired(data.items, keys)>> >>
            IN  << <<"type", "array">>,
                   <<"description",
                     "Array of " \o ToString(Len(data.items)) \o " objects">>,
                   <<"items", merged_schema>> >>
        ELSE
            LET sample_value == data.items[1]
            IN  IF sample_value # None
                THEN << <<"type", "array">>,
                        <<"description",
                          "Array of " \o ToString(Len(data.items)) \o " items">>,
                        <<"items", detect_field_pattern(sample_value)>> >>
                ELSE << <<"type", "array">>,
                        <<"description", "Array of items">>,
                        <<"items", << <<"type", "string">> >> >> >>
    ELSE detect_field_pattern(data)

---------------------------------------------------------------------------
(* flatten_json.flatten(nested_dict), the library call of json_to_dataframe, *)
(* with its default separator "_".                                          *)

Separator == "_"

\* not object_: None, False, 0, 0.0, "", [] and {} are falsy
Falsy(v) ==
    CASE v.t = "null" -> TRUE
      [] v.t = "bool" -> ~v.b
      [] v.t = "int" -> v.i = 0
      [] v.t = "float" -> v.f = 0
      [] v.t = "str" -> v.s = <<>>
      [] v.t = "list" -> v.items = <<>>
      [] v.t = "dict" -> v.fields = <<>>
      [] OTHER -> FALSE

\* a slip of the key construction: the key of the enclosing value is dropped
construct_key_NoPrefix(previous_key, separator, new_key) == <<new_key>>

\* _construct_key(previous_key, separator, new_key): previous_key is <<>> for
\* None and <<k>> for the key k; an empty previous key is falsy as None is.
\* A list index is formatted into the key as its decimal digits.  (Under a
\* falsy previous key the library returns the index itself, an int; the
\* documents below hold no list under an empty key.)
construct_key(previous_key, separator, new_key) ==
    IF previous_key # <<>> /\ previous_key[1] # ""
    THEN <<previous_key[1] \o separator \o new_key>>
    ELSE <<new_key>>

\* _flatten(object_, key) with flattened_dict threaded through as acc
RECURSIVE FlattenInto(_, _, _)
RECURSIVE FlattenFields(_, _, _)
RECURSIVE FlattenItems(_, _, _, _)
FlattenInto(object_, key, acc) ==
    IF Falsy(object_) THEN Put(acc, key[1], object_)
    ELSE IF IsDict(object_) THEN FlattenFields(object_.fields, key, acc)
    ELSE IF IsList(object_) THEN FlattenItems(object_.items, 0, key, acc)
    ELSE Put(acc, key[1], object_)
\* for object_key in object_: _flatten(object_[object_key], ...)
FlattenFields(fields, key, acc) ==
    IF fields = <<>> THEN acc
    ELSE FlattenFields(Tail(fields), key,
             FlattenInto(Head(fields)[2],
                         construct_key(key, Separator, Head(fields)[1]), acc))
\* for index, item in enumerate(object_): _flatten(item, ...)
FlattenItems(items, index, key, acc) ==
    IF items = <<>> THEN acc
    ELSE FlattenItems(Tail(items), index + 1, key,
             FlattenInto(Head(items),
                         construct_key(key, Separator, ToString(index)), acc))

\* flatten_json.flatten(nested_dict): the flattened dict, as pairs
flatten(nested_dict) ==
    IF Len(nested_dict.fields) = 0 THEN <<>>
    ELSE FlattenInto(nested_dict, <<>>, <<>>)

---------------------------------------------------------------------------
(* pandas.DataFrame(...), as json_to_dataframe calls it.  A frame is its   *)
(* column names and its rows, each row the pairs <<column, cell>> over all *)
(* the columns; a call that raises gives the exception's name.  Cells keep *)
(* the Python objects put in: the dtype pandas infers for a column is not  *)
(* modelled.                                                               *)

Frame(columns, rows) == [kind |-> "frame", columns |-> columns, rows |-> rows]
Raises(exception) == [kind |-> "raises", exception |-> exception]

\* the columns of a list of dicts: the keys in the order they are first met
RECURSIVE UnionColumns(_)
UnionColumns(dicts) ==
    IF dicts = <<>> THEN <<>>
    ELSE LET before == UnionColumns(SubSeq(dicts, 1, Len(dicts) - 1))
             last == Keys(dicts[Len(dicts)])
         IN  before \o SelectSeq(last, LAMBDA k : k \notin Range(before))

\* one row of the frame: the dict's value for each column, NaN where missing
RowOf(dict, columns) ==
    [n \in 1..Len(columns) |->
        <<columns[n], IF Has(dict, columns[n]) THEN Get(dict, columns[n]) ELSE NaN>>]

\* pd.DataFrame(dicts) for a non-empty list of dicts (each a sequence of pairs)
DataFrameOfDicts(dicts) ==
    LET columns == UnionColumns(dicts)
    IN  Frame(columns, [n \in 1..Len(dicts) |-> RowOf(dicts[n], columns)])

\* pd.DataFrame()
EmptyDataFrame == Frame(<<>>, <<>>)

\* len(v) is defined
HasLen(v) == v.t \in {"list", "dict", "str"}
\* list(v) of a row of to_object_array: a list's items, a dict's keys, a str's
\* characters
KeyAsStr(k) == [t |-> "str", key |-> k]
AsList(v) ==
    CASE v.t = "list" -> v.items
      [] v.t = "dict" -> [n \in 1..Len(v.fields) |-> KeyAsStr(v.fields[n][1])]
      [] v.t = "str" -> [n \in 1..Len(v.s) |-> PyString(<<v.s[n]>>)]

\* dict(d) succeeds: d is a dict, or iterates over pairs (two-item lists with a
\* hashable first item, or two-character strings)
IsHashable(v) == v.t \notin {"list", "dict"}
IsPair(v) ==
    \/ IsList(v) /\ Len(v.items) = 2 /\ IsHashable(v.items[1])
    \/ IsStr(v) /\ Len(v.s) = 2
DictAccepts(d) ==
    \/ IsDict(d)
    \/ IsList(d) /\ \A n \in 1..Len(d.items) : IsPair(d.items[n])
    \/ IsStr(d) /\ d.s = <<>>

\* pd.DataFrame(data, columns=["Value"]) for a non-empty list data
DataFrameValueColumn(data) ==
    LET first == data[1]
        count == Len(data)
    IN  IF IsDict(first) THEN
            \* a list of records: every element goes through dict(d), and the
            \* row is its entry for the column "Value"
            IF \A n \in 1..count : DictAccepts(data[n])
            THEN Frame(<<"Value">>,
                       [n \in 1..count |->
                           << <<"Value",
                                IF IsDict(data[n]) /\ Has(data[n].fields, "Value")
                                THEN Get(data[n].fields, "Value") ELSE NaN>> >>])
            ELSE Raises("TypeError")
        ELSE IF IsList(first) THEN
            \* a list of rows: as many columns as the longest row has items
            IF \E n \in 1..count : ~HasLen(data[n]) THEN Raises("TypeError")
            ELSE IF \/ \E n \in 1..count : Len(AsList(data[n])) > 1
                    \/ \A m \in 1..count : Len(AsList(data[m])) = 0
            THEN Raises("ValueError")
            ELSE Frame(<<"Value">>,
                       [n \in 1..count |->
                           << <<"Value",
                                IF AsList(data[n]) = <<>> THEN None
                                ELSE AsList(data[n])[1]>> >>])
        ELSE
            \* a list of values: one row for each
            Frame(<<"Value">>, [n \in 1..count |-> << <<"Value", data[n]>> >>])

---------------------------------------------------------------------------
(* json_to_dataframe *)

\* a slip of the dispatch: an object is taken for a simple value
json_to_dataframe_DictAsValue(data) ==
    IF IsList(data) THEN
        IF data.items = <<>> THEN EmptyDataFrame
        ELSE IF \A item \in Range(data.items) : IsDict(item)
        THEN DataFrameOfDicts([n \in 1..Len(data.items) |-> flatten(data.items[n])])
        ELSE DataFrameValueColumn(data.items)
    ELSE DataFrameOfDicts(<< << <<"Value", data>> >> >>)

\* a slip of the column name: "value", as flatten_nested_json names it
json_to_dataframe_LowercaseValue(data) ==
    IF IsList(data) THEN
        IF data.items = <<>> THEN EmptyDataFrame
        ELSE IF \A item \in Range(data.items) : IsDict(item)
        THEN DataFrameOfDicts([n \in 1..Len(data.items) |-> flatten(data.items[n])])
        ELSE DataFrameValueColumn(data.items)
    ELSE IF IsDict(data) THEN
        LET flattened == flatten(data)
        IN  IF Len(flattened) = Len(data.fields)
            THEN DataFrameOfDicts(<<data.fields>>)
            ELSE DataFrameOfDicts(<<flattened>>)
    ELSE DataFrameOfDicts(<< << <<"value", data>> >> >>)

json_to_dataframe(data) ==
    IF IsList(data) THEN
        IF data.items = <<>> THEN EmptyDataFrame
        ELSE IF \A item \in Range(data.items) : IsDict(item)
        THEN DataFrameOfDicts([n \in 1..Len(data.items) |-> flatten(data.items[n])])
        ELSE DataFrameValueColumn(data.items)
    ELSE IF IsDict(data) THEN
        LET flattened == flatten(data)
        IN  IF Len(flattened) = Len(data.fields)
            THEN DataFrameOfDicts(<<data.fields>>)
            ELSE DataFrameOfDicts(<<flattened>>)
    ELSE DataFrameOfDicts(<< << <<"Value", data>> >> >>)

---------------------------------------------------------------------------
(* The JSON documents the functions are applied to *)

\* the largest integer, the most fields of an object, the most elements of an
\* array, and the most objects of an array of flat objects
MaxInt == 1
MaxFields == 2
MaxArrayLen == 2
MaxItems == 3
\* the most values of one field handed to analyze_field_statistics
MaxValues == 4

\* "11/18/2022", "11/18/2022 14:37:31", "ML3PL-PP129" and "a.b@c-d.io"
DateSample == <<"1", "1", "/", "1", "8", "/", "2", "0", "2", "2">>
DateTimeSample == DateSample \o <<" ", "1", "4", ":", "3", "7", ":", "3", "1">>
IdentifierSample == <<"M", "L", "3", "P", "L", "-", "P", "P", "1", "2", "9">>
EmailSample == <<"a", ".", "b", "@", "c", "-", "d", ".", "i", "o">>
\* a text of ExampleMaxLen + 1 characters
LongText == [n \in 1..(ExampleMaxLen + 1) |-> "x"]

SampleStrings ==
    {<<>>, <<"a", "b">>, <<"A", "1">>, <<"4", "2">>,
     DateSample, DateTimeSample, IdentifierSample, EmailSample, LongText,
     <<"7">>, <<"4", "2", "\n">>, <<ArabicIndicThree>>, <<"1", "/", "2">>,
     <<"A", "@", "B", ".", "C", "O">>, <<"a", "_", "b">>, <<" ">>}

Scalars ==
    {None, PyBool(TRUE), PyBool(FALSE), PyFloat(15)}
    \cup {PyInt(n) : n \in 0..MaxInt}
    \cup {PyString(s) : s \in SampleStrings}

\* the values nested inside objects and arrays
Leaves == {None, PyBool(TRUE), PyInt(0), PyInt(1), PyString(<<"a", "b">>)}
Nested ==
    {PyList(<<>>), PyList(<<PyInt(1)>>), PyList(<<PyInt(1), PyString(<<"a", "b">>)>>),
     PyDict(<<>>), PyDict(<< <<"b", PyInt(1)>> >>),
     PyDict(<< <<"b", PyInt(1)>>, <<"c", None>> >>),
     PyList(<<PyDict(<< <<"b", PyInt(1)>> >>), PyDict(<< <<"c", PyInt(0)>> >>)>>)}
Values == Leaves \cup Nested

FieldNames == {"a", "b", "a_b"}

\* the sequences of length count over S
SeqsOf(S, count) == [1..count -> S]
\* those without a repeated element
Distinct(seq) == \A m, n \in 1..Len(seq) : m # n => seq[m] # seq[n]

\* objects of at most MaxFields fields
Objects ==
    {PyDict([n \in 1..Len(names) |-> <<names[n], vals[n]>>]) :
        <<names, vals>> \in
            UNION {{ks \in SeqsOf(FieldNames, count) : Distinct(ks)}
                       \X SeqsOf(Values, count) : count \in 0..MaxFields}}

\* arrays of at most MaxArrayLen elements: values, and objects with nesting
NestedObjects ==
    {PyDict(<< <<"a", PyDict(<< <<"b", PyInt(1)>> >>)>> >>),
     PyDict(<< <<"a", PyList(<<PyInt(1), PyInt(0)>>)>>, <<"b", None>> >>),
     PyDict(<< <<"a", PyDict(<< <<"b", PyInt(1)>> >>)>>, <<"a_b", PyInt(0)>> >>)}
Arrays ==
    {PyList(items) :
        items \in UNION {SeqsOf(Values \cup NestedObjects, count) :
                             count \in 0..MaxArrayLen}}

\* arrays of at most MaxItems flat objects, with missing and null fields
FlatObjects ==
    {PyDict(<<>>),
     PyDict(<< <<"a", None>> >>),
     PyDict(<< <<"a", PyInt(1)>> >>),
     PyDict(<< <<"a", PyString(<<"A", "1">>)>> >>),
     PyDict(<< <<"b", PyBool(TRUE)>> >>),
     PyDict(<< <<"a", None>>, <<"b", PyBool(TRUE)>> >>),
     PyDict(<< <<"a", PyInt(1)>>, <<"b", None>> >>),
     PyDict(<< <<"a", PyInt(1)>>, <<"b", PyBool(TRUE)>> >>),
     PyDict(<< <<"b", None>>, <<"a", PyString(<<"A", "1">>)>> >>)}
ObjectArrays ==
    {PyList(items) :
        items \in UNION {SeqsOf(FlatObjects, count) : count \in 1..MaxItems}}

\* the values of one field over the elements of an array: strings and nulls
FieldStrings == {<<"x">>, <<"y">>, <<"A", "1">>, <<"a", "b">>}
ValueLists ==
    {PyList(items) :
        items \in UNION {SeqsOf({None} \cup {PyString(s) : s \in FieldStrings}, count) :
                             count \in 1..MaxValues}}

Documents == Scalars \cup Objects \cup Arrays \cup ObjectArrays \cup ValueLists

\* the keys of the arrays of objects inside a document: the sets that
\* generate_schema iterates over
RECURSIVE SeqUnion(_)
SeqUnion(sets) == IF sets = <<>> THEN {} ELSE Head(sets) \cup SeqUnion(Tail(sets))
RECURSIVE MergedKeys(_)
MergedKeys(v) ==
    IF IsDict(v)
    THEN SeqUnion([n \in 1..Len(v.fields) |-> MergedKeys(v.fields[n][2])])
    ELSE IF IsList(v) /\ v.items # <<>> /\ \A item \in Range(v.items) : IsDict(item)
    THEN AllKeys(v.items)
    ELSE {}

\* the orders in which a run can iterate over a set of keys
Orders(S) == {order \in SeqsOf(S, Cardinality(S)) : Distinct(order)}

---------------------------------------------------------------------------
(* One run applies one of the functions to a document.                     *)

Init ==
    /\ inData \in Documents
    /\ inDetailed = FALSE
    /\ hashOrder \in Orders(MergedKeys(inData))
    /\ pc = "ready"
    /\ result = <<>>

CallDetectFieldPattern ==
    /\ pc = "ready"
    /\ result' = detect_field_pattern(inData)
    /\ pc' = "detect_field_pattern"
    /\ UNCHANGED <<inData, inDetailed, hashOrder>>

CallAnalyzeFieldStatistics ==
    /\ pc = "ready"
    /\ IsList(inData)
    /\ result' = analyze_field_statistics(inData.items)
    /\ pc' = "analyze_field_statistics"
    /\ UNCHANGED <<inData, inDetailed, hashOrder>>

CallGenerateSchema ==
    /\ pc = "ready"
    /\ \E detailed \in BOOLEAN :
        /\ inDetailed' = detailed
        /\ result' = generate_schema(inData, "root", detailed)
    /\ pc' = "generate_schema"
    /\ UNCHANGED <<inData, hashOrder>>

CallJsonToDataframe ==
    /\ pc = "ready"
    /\ result' = json_to_dataframe(inData)
    /\ pc' = "json_to_dataframe"
    /\ UNCHANGED <<inData, inDetailed, hashOrder>>

Next ==
    \/ CallDetectFieldPattern
    \/ CallAnalyzeFieldStatistics
    \/ CallGenerateSchema
    \/ CallJsonToDataframe

Spec == Init /\ [][Next]_vars

---------------------------------------------------------------------------
(* Properties *)

SchemaDone == pc = "generate_schema"
FrameDone == pc = "json_to_dataframe"

\* a non-empty array all of whose elements are objects
IsObjectArray(v) ==
    IsList(v) /\ v.items # <<>> /\ \A n \in 1..Len(v.items) : IsDict(v.items[n])
\* a non-empty array with an element that is not an object
IsMixedArray(v) ==
    IsList(v) /\ \E n \in 1..Len(v.items) : ~IsDict(v.items[n])

\* a scalar cell: null, boolean, number (NaN included) or string
IsScalar(v) == v.t \in {"null", "bool", "int", "float", "nan", "str"}

\* the dict d without the key k
WithoutKey(d, k) == SelectSeq(d, LAMBDA pair : pair[1] # k)

\* the value of a key in the n-th element of an array of objects, null where
\* the element has no such key
ValueAt(items, n, key) ==
    IF \E m \in 1..Len(items[n].fields) : items[n].fields[m][1] = key
    THEN items[n].fields[CHOOSE m \in 1..Len(items[n].fields) :
                             items[n].fields[m][1] = key][2]
    ELSE None
\* the elements in which the key is missing or null
NullPositions(items, key) == {n \in 1..Len(items) : ValueAt(items, n, key) = None}
\* the keys of all the elements
UnionOfKeys(items) ==
    UNION {{items[n].fields[m][1] : m \in 1..Len(items[n].fields)} :
               n \in 1..Len(items)}

\* C1: detect_field_pattern of a boolean returns the boolean classification,
\* never the integer classification.
C1_BooleanIsBoolean ==
    (pc = "detect_field_pattern" /\ inData.t = "bool")
        => /\ Get(result, "type") = "boolean"
           /\ Get(result, "type") # "integer"

\* C2 as stated: generate_schema of an object gives every field of the
\* object, null-valued ones included, an entry in properties (the schema
\* inferred for its value) and lists it in required.
C2_EveryFieldInferredAndRequired ==
    (SchemaDone /\ IsDict(inData))
        => /\ Get(result, "type") = "object"
           /\ \A n \in 1..Len(inData.fields) :
                LET key == inData.fields[n][1]
                    value == inData.fields[n][2]
                IN  /\ Has(Get(result, "properties"), key)
                    /\ Get(Get(result, "properties"), key)
                           = generate_schema(value, key, inDetailed)
                    /\ key \in Range(Get(result, "required"))

\* C2 amended: generate_schema of an object gives every field whose value is
\* not null an entry in properties (the schema inferred for its value) and
\* lists it in required; a field whose value is null has no entry in
\* properties and is not listed in required.
C2_NonNullFieldsInferredAndRequired ==
    (SchemaDone /\ IsDict(inData))
        => /\ Get(result, "type") = "object"
           /\ \A n \in 1..Len(inData.fields) :
                LET key == inData.fields[n][1]
                    value == inData.fields[n][2]
                IN  IF value.t # "null"
                    THEN /\ Has(Get(result, "properties"), key)
                         /\ Get(Get(result, "properties"), key)
                                = generate_schema(value, key, inDetailed)
                         /\ key \in Range(Get(result, "required"))
                    ELSE /\ ~Has(Get(result, "properties"), key)
                         /\ key \notin Range(Get(result, "required"))

\* an object with a null field and a field holding a nested value has been
\* inferred
C2_Witness ==
    /\ SchemaDone /\ IsDict(inData)
    /\ \E n \in 1..Len(inData.fields) : inData.fields[n][2].t = "null"
    /\ \E n \in 1..Len(inData.fields) : inData.fields[n][2].t \in {"dict", "list"}
    /\ Len(Get(result, "required")) = 1

\* C3: for an object or an array of objects, every value in every row that
\* json_to_dataframe returns is a scalar, never an array or an object.
C3_RowsHoldScalars ==
    (FrameDone /\ (IsDict(inData) \/ IsObjectArray(inData)))
        => /\ result.kind = "frame"
           /\ \A n \in 1..Len(result.rows) :
                \A m \in 1..Len(result.rows[n]) : IsScalar(result.rows[n][m][2])

\* the first non-null value of a key over the elements, in array order
FirstValue(items, key) ==
    ValueAt(items,
            CHOOSE n \in 1..Len(items) :
                /\ n \notin NullPositions(items, key)
                /\ \A m \in 1..(n - 1) : m \in NullPositions(items, key),
            key)
\* the entry is the pattern of the key's first non-null value, with the
\* statistics over the key's values attached exactly when detailed
IsMergedEntry(entry, items, key, detailed) ==
    /\ WithoutKey(entry, "statistics") = detect_field_pattern(FirstValue(items, key))
    /\ Has(entry, "statistics") <=> detailed
    /\ detailed =>
         Get(entry, "statistics")
             = analyze_field_statistics([n \in 1..Len(items) |-> ValueAt(items, n, key)])

\* C4 as stated: the merged item schema of a non-empty array of objects has
\* a properties entry for every key of the union of the elements' keys: the
\* pattern of the key's first non-null value, with statistics iff detailed.
C4_EveryKeyHasMergedEntry ==
    (SchemaDone /\ IsObjectArray(inData))
        => LET properties == Get(Get(result, "items"), "properties")
           IN  \A key \in UnionOfKeys(inData.items) :
                  /\ Has(properties, key)
                  /\ IsMergedEntry(Get(properties, key), inData.items, key, inDetailed)

\* C4 amended: the merged item schema of a non-empty array of objects has a
\* properties entry exactly for the keys of the union of the elements' keys
\* that are not null in at least one element: the pattern of the key's first
\* non-null value in array order, with statistics (analyze_field_statistics
\* over the key's values, null where missing) attached iff detailed.
C4_NonNullKeysHaveMergedEntry ==
    (SchemaDone /\ IsObjectArray(inData))
        => LET properties == Get(Get(result, "items"), "properties")
               items == inData.items
           IN  /\ KeySet(properties) \subseteq UnionOfKeys(items)
               /\ \A key \in UnionOfKeys(items) :
                    IF NullPositions(items, key) # 1..Len(items)
                    THEN /\ Has(properties, key)
                         /\ IsMergedEntry(Get(properties, key), items, key, inDetailed)
                    ELSE ~Has(properties, key)

\* a key whose first element is null and whose later elements hold two
\* different values has been merged, with statistics
C4_Witness ==
    /\ SchemaDone /\ IsObjectArray(inData) /\ inDetailed
    /\ Len(inData.items) = 3
    /\ ValueAt(inData.items, 1, "a") = None
    /\ ValueAt(inData.items, 2, "a") = PyString(<<"A", "1">>)
    /\ ValueAt(inData.items, 3, "a") = PyInt(1)
    /\ Get(Get(Get(Get(result, "items"), "properties"), "a"), "description")
           = "Identifier or key"

\* C5: in the merged schema of a non-empty array of objects a field is
\* listed in required iff its null rate over the elements (missing counts
\* as null) is strictly below 0.5.
C5_RequiredIffNullRateBelowHalf ==
    (SchemaDone /\ IsObjectArray(inData))
        => LET required == Get(Get(result, "items"), "required")
               items == inData.items
           IN  \A key \in UnionOfKeys(items) :
                  key \in Range(required)
                      <=> 2 * Cardinality(NullPositions(items, key)) < Len(items)

\* one key is null in 1 of 3 elements and required, another is null in 2 of
\* 3 and not required
C5_Witness ==
    /\ SchemaDone /\ IsObjectArray(inData)
    /\ Len(inData.items) = 3
    /\ Cardinality(NullPositions(inData.items, "a")) = 1
    /\ Cardinality(NullPositions(inData.items, "b")) = 2
    /\ Get(Get(result, "items"), "required") = <<"a">>

\* C6: for a non-empty array with a non-object element, generate_schema
\* returns an array node whose items schema is detect_field_pattern of the
\* first element; the generic string item type is used for no such array.
C6_ItemsIsPatternOfFirstElement ==
    (SchemaDone /\ IsMixedArray(inData))
        => /\ Get(result, "type") = "array"
           /\ Get(result, "items") = detect_field_pattern(inData.items[1])

\* C7: an object none of whose values is an object or an array (the empty
\* object included) gives exactly one row, whose keys are the object's keys,
\* each mapped to the object's value.
C7_FlatObjectGivesItsOwnRow ==
    (FrameDone /\ IsDict(inData)
        /\ \A n \in 1..Len(inData.fields) : IsScalar(inData.fields[n][2]))
        => /\ result.kind = "frame"
           /\ Len(result.rows) = 1
           /\ {result.rows[1][m][1] : m \in 1..Len(result.rows[1])}
                  = {inData.fields[n][1] : n \in 1..Len(inData.fields)}
           /\ \A n \in 1..Len(inData.fields) :
                \E m \in 1..Len(result.rows[1]) :
                    result.rows[1][m] = inData.fields[n]

\* an object of two scalar fields, one of them falsy, has been converted
C7_Witness ==
    /\ FrameDone /\ IsDict(inData)
    /\ Len(inData.fields) = 2
    /\ inData.fields[1][2] = PyInt(0)
    /\ inData.fields[2][2] = PyString(<<"a", "b">>)
    /\ Len(result.rows) = 1

\* C8: for every array the number of rows returned equals the number of
\* elements of the array.
C8_OneRowPerElement ==
    (FrameDone /\ IsList(inData))
        => /\ result.kind = "frame"
           /\ Len(result.rows) = Len(inData.items)

\* C9: an array with a non-object element gives one row per element, in
\* array order, each with the single column Value holding the element itself.
C9_MixedArrayGivesValueRows ==
    (FrameDone /\ IsMixedArray(inData))
        => /\ result.kind = "frame"
           /\ Len(result.rows) = Len(inData.items)
           /\ \A n \in 1..Len(inData.items) :
                result.rows[n] = << <<"Value", inData.items[n]>> >>

\* C10: a scalar v (null, boolean, integer, float or string) gives exactly
\* one row, with the single column Value holding v.
C10_ScalarGivesOneValueRow ==
    (FrameDone /\ inData.t \in {"null", "bool", "int", "float", "str"})
        => /\ result.kind = "frame"
           /\ result.columns = <<"Value">>
           /\ result.rows = << << <<"Value", inData>> >> >>

\* null has been converted
C10_Witness ==
    /\ FrameDone
    /\ inData = None
    /\ Len(result.rows) = 1

\* the description of the first rule, in the order datetime, date, email,
\* identifier, numeric string, empty string, generic text, that a string
\* matches
FirstMatchingRule(s) ==
    IF ReMatch(DateTimePattern, s) THEN "Date and time in MM/DD/YYYY HH:MM:SS format"
    ELSE IF ReMatch(DatePattern, s) THEN "Date in MM/DD/YYYY format"
    ELSE IF ReMatch(EmailPattern, s) THEN "Email address"
    ELSE IF ReMatch(IdentifierPattern, s) THEN "Identifier or key"
    ELSE IF ReMatch(NumericPattern, s) THEN "Numeric string"
    ELSE IF s = <<>> THEN "Empty string"
    ELSE "Text string"

\* C11: detect_field_pattern on a string applies its rules in the order
\* datetime, date, email, identifier, numeric string, empty string, generic
\* text, and the first rule that matches decides; an integer that is not a
\* string is classified integer and a float number.  The examples
\* "11/18/2022 14:37:31", "11/18/2022", "ML3PL-PP129" and "" classify as
\* datetime, date, identifier and empty string.
C11_FirstMatchingRuleDecides ==
    pc = "detect_field_pattern"
        => /\ inData.t = "str"
                => /\ Get(result, "type") = "string"
                   /\ Get(result, "description") = FirstMatchingRule(inData.s)
           /\ inData.t = "int" => Get(result, "type") = "integer"
           /\ inData.t = "float" => Get(result, "type") = "number"
           /\ inData = PyString(DateTimeSample) => Get(result, "format") = "datetime"
           /\ inData = PyString(DateSample) => Get(result, "format") = "date"
           /\ inData = PyString(IdentifierSample)
                => Get(result, "description") = "Identifier or key"
           /\ inData = PyString(<<>>) => Get(result, "description") = "Empty string"

\* a string that both the identifier rule and the numeric-string rule match
\* has been classified
C11_Witness ==
    /\ pc = "detect_field_pattern"
    /\ inData = PyString(<<"4", "2">>)
    /\ ReMatch(IdentifierPattern, inData.s) /\ ReMatch(NumericPattern, inData.s)
    /\ Get(result, "description") = "Identifier or key"

\* C17: no input to detect_field_pattern yields the numeric-string
\* classification: every non-empty string made only of the digits 0-9 is
\* classified as identifier, the identifier rule being tried first.
C17_NumericStringNeverReturned ==
    pc = "detect_field_pattern"
        => /\ Get(result, "description") # "Numeric string"
           /\ (inData.t = "str" /\ inData.s # <<>>
                  /\ \A n \in 1..Len(inData.s) : inData.s[n] \in AsciiDigit)
                => /\ Get(result, "description") = "Identifier or key"
                   /\ Get(result, "pattern") = "^[A-Z0-9_-]+$"

\* a one-digit string has been classified
C17_Witness ==
    /\ pc = "detect_field_pattern"
    /\ inData = PyString(<<"7">>)
    /\ Get(result, "description") = "Identifier or key"

\* C12: generate_schema of the empty array returns an array node with the
\* empty-array marker and an empty items schema, never a merged object
\* schema (no properties, no required list), in either detailed mode.
C12_EmptyArrayGivesEmptyMarker ==
    (SchemaDone /\ inData = PyList(<<>>))
        => /\ Get(result, "type") = "array"
           /\ Get(result, "description") = "Empty array"
           /\ Get(result, "items") = <<>>
           /\ ~Has(result, "properties") /\ ~Has(result, "required")
           /\ ~Has(Get(result, "items"), "properties")
           /\ ~Has(Get(result, "items"), "required")

\* the empty array has been inferred in detailed mode
C12_Witness ==
    /\ SchemaDone
    /\ inData = PyList(<<>>)
    /\ inDetailed
    /\ Len(result) = 3

StatisticsDone == pc = "analyze_field_statistics"

\* the positions of the null values of a sequence, and of the value v
NullsOf(seq) == {n \in 1..Len(seq) : seq[n].t = "null"}
PositionsOf(seq, v) == {n \in 1..Len(seq) : seq[n] = v}
\* the position at which v is first met
FirstPosition(seq, v) ==
    CHOOSE n \in PositionsOf(seq, v) : \A m \in PositionsOf(seq, v) : n <= m

\* the statistics hold the counts of seq and its null rate
HasCounts(stats, seq) ==
    /\ Has(stats, "total_count") /\ Has(stats, "null_count") /\ Has(stats, "null_rate")
    /\ Get(stats, "total_count") = Len(seq)
    /\ Get(stats, "null_count") = Cardinality(NullsOf(seq))
    /\ Get(stats, "null_rate")[2] > 0
    /\ Get(stats, "null_rate")[1] * Len(seq)
           = Cardinality(NullsOf(seq)) * Get(stats, "null_rate")[2]

\* C13 as stated: for every input sequence analyze_field_statistics reports
\* total_count (the length), null_count (the number of nulls) and null_rate
\* (null_count / total_count).
C13_CountsAlways ==
    StatisticsDone => HasCounts(result, inData.items)

\* C13 amended: for every non-empty input sequence analyze_field_statistics
\* reports total_count (the length), null_count (the number of nulls) and
\* null_rate (null_count / total_count); for the empty sequence it returns
\* an empty result.
C13_CountsOfNonEmpty ==
    StatisticsDone
        => IF inData.items # <<>>
           THEN HasCounts(result, inData.items)
           ELSE result = <<>>

\* a sequence of four values, one of them null, has been analysed
C13_Witness ==
    /\ StatisticsDone
    /\ Len(inData.items) = 4
    /\ Cardinality(NullsOf(inData.items)) = 1
    /\ Has(result, "null_rate")
    /\ Get(result, "null_rate") = <<1, 4>>

\* C14: when every non-null value is a string (and there is one), the
\* result reports unique_count (the number of distinct non-null values),
\* uniqueness_rate (unique_count / non-null count) and most_common: at most
\* 3 (value, count) pairs in non-increasing count order, values of equal
\* count in the order they were first met.
C14_StringStatistics ==
    (StatisticsDone
        /\ NullsOf(inData.items) # 1..Len(inData.items)
        /\ \A n \in 1..Len(inData.items) : inData.items[n].t \in {"null", "str"})
        => LET seq == inData.items
               distinct == {seq[n] : n \in (1..Len(seq)) \ NullsOf(seq)}
               nonNull == Len(seq) - Cardinality(NullsOf(seq))
               rate == Get(result, "uniqueness_rate")
               common == Get(result, "most_common")
           IN  /\ Get(result, "unique_count") = Cardinality(distinct)
               /\ rate[2] > 0 /\ rate[1] * nonNull = Cardinality(distinct) * rate[2]
               /\ Len(common) <= 3
               /\ Len(common) = IF Cardinality(distinct) < 3
                                THEN Cardinality(distinct) ELSE 3
               /\ \A k \in 1..Len(common) :
                    /\ common[k][1] \in distinct
                    /\ common[k][2] = Cardinality(PositionsOf(seq, common[k][1]))
               /\ \A j, k \in 1..Len(common) :
                    j < k =>
                      \/ common[j][2] > common[k][2]
                      \/ /\ common[j][2] = common[k][2]
                         /\ FirstPosition(seq, common[j][1])
                                < FirstPosition(seq, common[k][1])
               /\ \A v \in distinct :
                    (\A k \in 1..Len(common) : common[k][1] # v)
                        => \A k \in 1..Len(common) :
                              Cardinality(PositionsOf(seq, v)) <= common[k][2]

\* four different strings, each met once, have been analysed: the three
\* first met are reported
C14_Witness ==
    /\ StatisticsDone
    /\ Len(inData.items) = 4
    /\ Has(result, "unique_count") /\ Has(result, "most_common")
    /\ Get(result, "unique_count") = 4
    /\ Len(Get(result, "most_common")) = 3
    /\ \A k \in 1..3 : Get(result, "most_common")[k] = <<inData.items[k], 1>>

\* the leaf positions below a value reached by path, each with its value: a
\* scalar, or an empty object or array; the steps of a path are the keys and
\* the array indices
RECURSIVE LeafPositions(_, _)
LeafPositions(v, path) ==
    IF IsDict(v) /\ v.fields # <<>>
    THEN UNION {LeafPositions(v.fields[n][2], Append(path, v.fields[n][1])) :
                    n \in 1..Len(v.fields)}
    ELSE IF IsList(v) /\ v.items # <<>>
    THEN UNION {LeafPositions(v.items[n], Append(path, ToString(n - 1))) :
                    n \in 1..Len(v.items)}
    ELSE {<<path, v>>}
\* the leaf positions of a source object
ObjectLeafPositions(object_) ==
    UNION {LeafPositions(object_.fields[n][2], <<object_.fields[n][1]>>) :
               n \in 1..Len(object_.fields)}
\* the column name of a path: its steps joined by "_"
RECURSIVE ColumnPath(_)
ColumnPath(path) ==
    IF Len(path) = 1 THEN path[1]
    ELSE ColumnPath(SubSeq(path, 1, Len(path) - 1)) \o "_" \o path[Len(path)]
\* the keys of the objects within a value, at any depth
RECURSIVE KeysWithin(_)
KeysWithin(v) ==
    IF IsDict(v)
    THEN {v.fields[n][1] : n \in 1..Len(v.fields)}
             \cup UNION {KeysWithin(v.fields[n][2]) : n \in 1..Len(v.fields)}
    ELSE IF IsList(v) THEN UNION {KeysWithin(v.items[n]) : n \in 1..Len(v.items)}
    ELSE {}
\* of the keys of the documents, those that are not empty and hold no "_"
PlainKeys == {"a", "b", "c"}
HasPlainKeys(v) == KeysWithin(v) \subseteq PlainKeys

\* every leaf position of the object has the column of its path in the row,
\* holding its value, and the row has no more filled cells than leaf positions
RowKeepsLeaves(row, object_) ==
    /\ \A leaf \in ObjectLeafPositions(object_) :
          /\ Has(row, ColumnPath(leaf[1]))
          /\ Get(row, ColumnPath(leaf[1])) = leaf[2]
    /\ Cardinality({n \in 1..Len(row) : row[n][2] # NaN})
           = Cardinality(ObjectLeafPositions(object_))
\* the rows of the frame keep the leaves of the document: of each element of
\* an array of objects; of an object, unless the row is the object as it is
FrameKeepsLeaves ==
    /\ result.kind = "frame"
    /\ IF IsList(inData)
       THEN /\ Len(result.rows) = Len(inData.items)
            /\ \A n \in 1..Len(inData.items) :
                  RowKeepsLeaves(result.rows[n], inData.items[n])
       ELSE /\ Len(result.rows) = 1
            /\ \/ result.rows[1] = inData.fields
               \/ RowKeepsLeaves(result.rows[1], inData)

\* C15 as stated: in the rows returned for an object or an array of objects
\* each column path identifies one leaf position of the source: two leaf
\* positions of one source object never give the same column name, so no
\* leaf value is lost when a row is built.
C15_ColumnPathsUnique ==
    (FrameDone /\ (IsDict(inData) \/ IsObjectArray(inData))) => FrameKeepsLeaves

\* C15 amended: when no key of the source, at any depth, is empty or holds
\* the separator "_", each column path of the rows returned for an object or
\* an array of objects identifies one leaf position: two leaf positions of
\* one source object never give the same column name, and no leaf value is
\* lost when a row is built.
C15_PlainKeysGiveUniqueColumnPaths ==
    (FrameDone /\ (IsDict(inData) \/ IsObjectArray(inData)) /\ HasPlainKeys(inData))
        => FrameKeepsLeaves

\* an array of objects, one with three leaves under plain keys, two of them
\* in a nested array, has been flattened into rows
C15_Witness ==
    /\ FrameDone /\ IsObjectArray(inData) /\ HasPlainKeys(inData)
    /\ result.kind = "frame"
    /\ \E n \in 1..Len(inData.items) :
          /\ Cardinality(ObjectLeafPositions(inData.items[n])) = 3
          /\ \E leaf \in ObjectLeafPositions(inData.items[n]) : Len(leaf[1]) = 2
          /\ Has(result.rows[n], "a_1")

\* a sequence without a repeated element
NoRepeat(seq) == \A m, n \in 1..Len(seq) : m # n => seq[m] # seq[n]

\* the object-typed nodes of a schema, the schema itself included: those of
\* its properties and of its items
RECURSIVE NodesHold(_)
NodesHold(schema) ==
    /\ (Has(schema, "type") /\ Get(schema, "type") = "object")
          => /\ Has(schema, "properties") /\ Has(schema, "required")
             /\ Range(Get(schema, "required")) \subseteq KeySet(Get(schema, "properties"))
             /\ NoRepeat(Get(schema, "required"))
    /\ Has(schema, "properties")
          => \A n \in 1..Len(Get(schema, "properties")) :
                NodesHold(Get(schema, "properties")[n][2])
    /\ Has(schema, "items") => NodesHold(Get(schema, "items"))

\* C16: in every object-typed node of a schema generate_schema produces (a
\* single object at any depth, the merged item schema of an array of
\* objects) every name of required is a key of properties and no name is
\* in required twice.
C16_RequiredWithinProperties ==
    SchemaDone => NodesHold(result)

\* the schema of an object is done whose field holds an object with a null
\* field: the nested node requires fewer names than the object has keys, and
\* the outer node requires the field
C16_Witness ==
    /\ SchemaDone /\ IsDict(inData)
    /\ Get(result, "required") # <<>>
    /\ \E n \in 1..Len(inData.fields) :
          /\ IsDict(inData.fields[n][2])
          /\ Len(inData.fields[n][2].fields) = 2
          /\ Has(Get(result, "properties"), inData.fields[n][1])
          /\ Len(Get(Get(Get(result, "properties"), inData.fields[n][1]), "required")) = 1

====
